---------------------------- MODULE Spec2Model ----------------------------
(***************************************************************************)
(* Cocoacrest product showcase (React component CocoacrestShowcase).       *)
(*                                                                         *)
(* Text is modelled as a sequence of characters, each character a          *)
(* one-element string; the two non-ASCII characters of the order message   *)
(* are the characters "RUPEE" and "EMDASH".  A JavaScript number is a      *)
(* record [k, m, e]: k = "num" is the decimal m * 10^(-e) in canonical     *)
(* form, k = "inf" is +/-Infinity (sign in m), k = "nan" is NaN and        *)
(* k = "null" is the value null that JSON.parse gives back for a number    *)
(* JSON.stringify could not write.                                         *)
(***************************************************************************)
EXTENDS Integers, Sequences, FiniteSets, TLC

\* ------------------------------------------------------------------ bounds
\* Date.now() takes the values 1..MaxClock.
MaxClock == 2
\* A tab's catalog holds at most MaxAdded products that were added (add is
\* not taken above that).
MaxAdded == 2
\* At most MaxOrders order actions are started in one page session.
MaxOrders == 1

\* ------------------------------------------------------------- characters
UpperChars == <<"A","B","C","D","E","F","G","H","I","J","K","L","M","N","O","P","Q","R","S","T","U","V","W","X","Y","Z">>
LowerChars == <<"a","b","c","d","e","f","g","h","i","j","k","l","m","n","o","p","q","r","s","t","u","v","w","x","y","z">>
DigitChars == <<"0","1","2","3","4","5","6","7","8","9">>

\* String.prototype.trim and parseFloat strip these characters.
WhiteSpace == {" ", "\t", "\n", "\r", "\f"}

IndexOf(c, s) == CHOOSE i \in 1..Len(s) : s[i] = c

\* String.prototype.toLowerCase, one character.
UpperSet == {UpperChars[i] : i \in 1..Len(UpperChars)}
DigitSet == {DigitChars[i] : i \in 1..Len(DigitChars)}

LowerChar(c) ==
    IF c \in UpperSet
    THEN LowerChars[IndexOf(c, UpperChars)]
    ELSE c

\* String.prototype.toLowerCase.
toLowerCase(s) == [i \in 1..Len(s) |-> LowerChar(s[i])]

RECURSIVE TrimStart(_)
TrimStart(s) ==
    IF s # <<>> /\ Head(s) \in WhiteSpace THEN TrimStart(Tail(s)) ELSE s

RECURSIVE TrimEnd(_)
TrimEnd(s) ==
    IF s # <<>> /\ s[Len(s)] \in WhiteSpace
    THEN TrimEnd(SubSeq(s, 1, Len(s) - 1))
    ELSE s

\* trim left out: the text as it is.
NoTrim(s) == s

\* String.prototype.trim.
trim(s) == TrimEnd(TrimStart(s))

\* String.prototype.includes: scans the text for the first place where the
\* searched text starts.
RECURSIVE includes(_, _)
includes(text, q) ==
    IF Len(q) > Len(text) THEN FALSE
    ELSE IF SubSeq(text, 1, Len(q)) = q THEN TRUE
    ELSE includes(Tail(text), q)

StartsWith(s, pre) == Len(pre) <= Len(s) /\ SubSeq(s, 1, Len(pre)) = pre

\* ---------------------------------------------------------------- numbers
RECURSIVE Pow10(_)
Pow10(n) == IF n = 0 THEN 1 ELSE 10 * Pow10(n - 1)

RECURSIVE Canon(_, _)
Canon(m, e) ==
    IF m = 0 THEN [k |-> "num", m |-> 0, e |-> 0]
    ELSE IF e > 0 /\ m % 10 = 0 THEN Canon(m \div 10, e - 1)
    ELSE [k |-> "num", m |-> m, e |-> e]

Num(m, e) == Canon(m, e)
Infinity(sign) == [k |-> "inf", m |-> sign, e |-> 0]
NaN == [k |-> "nan", m |-> 0, e |-> 0]
null == [k |-> "null", m |-> 0, e |-> 0]

\* The length of the longest prefix of decimal digits.
RECURSIVE DigitRun(_)
DigitRun(s) ==
    IF s # <<>> /\ Head(s) \in DigitSet
    THEN 1 + DigitRun(Tail(s))
    ELSE 0

RECURSIVE DigitsValue(_)
DigitsValue(s) ==
    IF s = <<>> THEN 0
    ELSE 10 * DigitsValue(SubSeq(s, 1, Len(s) - 1))
         + (IndexOf(s[Len(s)], DigitChars) - 1)

\* The global parseFloat on texts without an exponent part: leading white
\* space, a sign, then "Infinity" or digits with an optional fraction; what
\* follows the number is ignored; NaN when no number starts the text.
parseFloat(s) ==
    LET t == TrimStart(s)
        signed == t # <<>> /\ Head(t) \in {"+", "-"}
        sign == IF t # <<>> /\ Head(t) = "-" THEN -1 ELSE 1
        u == IF signed THEN Tail(t) ELSE t
        ni == DigitRun(u)
        r == SubSeq(u, ni + 1, Len(u))
        nf == IF r # <<>> /\ Head(r) = "." THEN DigitRun(Tail(r)) ELSE 0
        digits == SubSeq(u, 1, ni) \o SubSeq(r, 2, nf + 1)
    IN  IF StartsWith(u, <<"I","n","f","i","n","i","t","y">>) THEN Infinity(sign)
        ELSE IF ni + nf = 0 THEN NaN
        ELSE Num(sign * DigitsValue(digits), nf)

\* JavaScript truthiness of a number: NaN, 0 and null are falsy.
Truthy(n) == n.k = "inf" \/ (n.k = "num" /\ n.m # 0)

\* The decimal digits of a natural number.
RECURSIVE NatChars(_)
NatChars(n) ==
    IF n < 10 THEN <<DigitChars[n + 1]>>
    ELSE NatChars(n \div 10) \o <<DigitChars[(n % 10) + 1]>>

Abs(n) == IF n < 0 THEN -n ELSE n

\* Number.prototype.toFixed(2) of a number or an infinity (it throws on
\* null, see RenderThrows).
toFixed2(n) ==
    IF n.k = "inf"
    THEN (IF n.m < 0 THEN <<"-">> ELSE <<>>) \o <<"I","n","f","i","n","i","t","y">>
    ELSE LET a == Abs(n.m)
             cents == IF n.e <= 2 THEN a * Pow10(2 - n.e)
                      ELSE (a + 5 * Pow10(n.e - 3)) \div Pow10(n.e - 2)
             frac == cents % 100
         IN  (IF n.m < 0 THEN <<"-">> ELSE <<>>)
             \o NatChars(cents \div 100) \o <<".">>
             \o <<DigitChars[(frac \div 10) + 1], DigitChars[(frac % 10) + 1]>>

\* --------------------------------------------------------------- products
STORAGE_KEY == "cocoacrest_products_v1"

Product(id, name, desc, price, category, color) ==
    [id |-> id, name |-> name, desc |-> desc, price |-> price,
     category |-> category, color |-> color]

defaultProducts ==
    << Product(<<"c","h","o","c","-","0","1">>, <<"M","i","d","n","i","g","h","t"," ","T","r","u","f","f","l","e">>,
               <<"7","0","%"," ","d","a","r","k"," ","c","h","o","c","o","l","a","t","e"," ","g","a","n","a","c","h","e"," ","w","i","t","h"," ","a"," ","w","h","i","s","p","e","r"," ","o","f"," ","s","e","a"," ","s","a","l","t",".">>,
               Num(45, 1), <<"D","a","r","k">>, <<"#","3","b","2","f","2","f">>),
       Product(<<"c","h","o","c","-","0","2">>, <<"S","i","l","k","y"," ","C","a","r","a","m","e","l">>,
               <<"S","m","o","o","t","h"," ","c","a","r","a","m","e","l"," ","c","e","n","t","e","r",","," ","m","i","l","k"," ","c","h","o","c","o","l","a","t","e"," ","c","o","a","t","i","n","g",".">>,
               Num(39, 1), <<"M","i","l","k">>, <<"#","8","b","5","e","3","c">>),
       Product(<<"c","h","o","c","-","0","3">>, <<"H","a","z","e","l","n","u","t"," ","C","r","u","n","c","h">>,
               <<"T","o","a","s","t","e","d"," ","h","a","z","e","l","n","u","t","s"," ","w","i","t","h"," ","c","r","u","n","c","h","y"," ","p","e","a","r","l","s",".">>,
               Num(525, 2), <<"N","u","t","t","y">>, <<"#","6","b","3","f","1","f">>),
       Product(<<"c","h","o","c","-","0","4">>, <<"R","u","b","y"," ","R","a","s","p","b","e","r","r","y">>,
               <<"T","a","n","g","y"," ","r","a","s","p","b","e","r","r","y"," ","c","r","e","a","m"," ","w","r","a","p","p","e","d"," ","i","n"," ","r","u","b","y"," ","c","h","o","c","o","l","a","t","e",".">>,
               Num(50, 1), <<"F","r","u","i","t">>, <<"#","b","3","3","a","5","b">>),
       Product(<<"c","h","o","c","-","0","5">>, <<"M","a","t","c","h","a"," ","B","l","i","s","s">>,
               <<"W","h","i","t","e"," ","c","h","o","c","o","l","a","t","e"," ","m","e","e","t","s"," ","p","r","e","m","i","u","m"," ","m","a","t","c","h","a"," ","p","o","w","d","e","r",".">>,
               Num(475, 2), <<"E","x","o","t","i","c">>, <<"#","6","b","8","b","4","b">>),
       Product(<<"c","h","o","c","-","0","6">>, <<"C","o","c","o","a"," ","C","r","u","n","c","h"," ","B","a","r">>,
               <<"C","r","i","s","p","y"," ","r","i","c","e",","," ","c","a","c","a","o"," ","n","i","b","s"," ","a","n","d"," ","a"," ","m","i","l","k"," ","c","h","o","c","o","l","a","t","e"," ","h","u","g",".">>,
               Num(295, 2), <<"B","a","r">>, <<"#","6","d","3","b","2","b">>) >>

\* The add form as useState creates it and as addProduct resets it.
emptyForm ==
    [name |-> <<>>, desc |-> <<>>, price |-> <<>>, category |-> <<>>,
     color |-> <<"#","7","b","3","e","2","3">>]

\* ------------------------------------------------------------------- JSON
\* What localStorage holds under STORAGE_KEY: nothing, or a text.  A text
\* is the empty text, a text JSON.parse rejects, the JSON text of a value
\* that is no array, or the JSON text of an array (its items are kept as
\* JSON values: a number JSON cannot write is the JSON null).
NoItem == [kind |-> "absent", items |-> <<>>]
EmptyText == [kind |-> "empty", items |-> <<>>]
GarbageText == [kind |-> "garbage", items |-> <<>>]
ObjectText == [kind |-> "object", items |-> <<>>]
ArrayText(items) == [kind |-> "array", items |-> items]

\* JSON.stringify of a number: NaN and the infinities are written as null.
JsonNumber(n) == IF n.k = "num" THEN n ELSE null

\* JSON.stringify(products).
stringify(ps) ==
    ArrayText([i \in 1..Len(ps) |-> [ps[i] EXCEPT !.price = JsonNumber(@)]])

\* ------------------------------------------------------------------ state
Tabs == {"A", "B"}

VARIABLES
    storage,         \* localStorage[STORAGE_KEY], shared by the tabs
    written,         \* history: the catalog of the last setItem that returned
    now,             \* Date.now()
    page,            \* per tab: "closed", "mounted" or "crashed"
    products,        \* per tab: the catalog (useState)
    search,          \* per tab: the search text
    activeCategory,  \* per tab: the selected category
    selected,        \* per tab: <<>> (null) or <<p>>, the detail overlay
    mobileMenuOpen,  \* per tab: the mobile category drawer
    isAdmin,         \* per tab: the admin flag
    adminPass,       \* per tab: the passphrase field
    newProduct,      \* per tab: the add form
    orders,          \* the suspended orderOnInstagram calls of the open pages
    last             \* the last event

vars == <<storage, written, now, page, products, search, activeCategory, selected,
          mobileMenuOpen, isAdmin, adminPass, newProduct, orders, last>>

NoDialog == "none"
\* An event: the handler that ran and its argument (the id handed to
\* removeProduct; for a mount, whether getItem returned or threw), its tab,
\* the dialog it showed, whether the persist effect ran after it ("none",
\* "ok", "threw"), and, when it ends an orderOnInstagram call, what that
\* call did from start to end.
Call(op, arg, t, dialog, saved, effects) ==
    [op |-> op, arg |-> arg, tab |-> t, dialog |-> dialog, saved |-> saved,
     effects |-> effects]
Done(op, t, dialog, saved, effects) ==
    Call(op, <<>>, t, dialog, saved, effects)
Event(op, t, dialog, saved) == Call(op, <<>>, t, dialog, saved, <<>>)

Init ==
    /\ storage \in {NoItem, EmptyText, GarbageText, ObjectText, ArrayText(<<>>)}
    /\ written = <<>>
    /\ now = 1
    /\ page = [t \in Tabs |-> "closed"]
    /\ products = [t \in Tabs |-> <<>>]
    /\ search = [t \in Tabs |-> <<>>]
    /\ activeCategory = [t \in Tabs |-> <<"A","l","l">>]
    /\ selected = [t \in Tabs |-> <<>>]
    /\ mobileMenuOpen = [t \in Tabs |-> FALSE]
    /\ isAdmin = [t \in Tabs |-> FALSE]
    /\ adminPass = [t \in Tabs |-> <<>>]
    /\ newProduct = [t \in Tabs |-> emptyForm]
    /\ orders = <<>>
    /\ last = Event("init", "none", NoDialog, "none")

\* ------------------------------------------------------------ load, save
\* The products initializer: localStorage.getItem and JSON.parse in a try;
\* ok is whether storage access succeeds (getItem throws otherwise).
load(ok) ==
    IF ~ok THEN defaultProducts
    ELSE IF storage.kind \in {"absent", "empty"} THEN defaultProducts
    ELSE IF storage.kind = "garbage" THEN defaultProducts
    ELSE IF storage.kind # "array" \/ Len(storage.items) = 0
    THEN defaultProducts
    ELSE storage.items

\* The persist effect: localStorage.setItem in a try; a throw is logged.
persist(ps, ok) ==
    /\ storage' = IF ok THEN stringify(ps) ELSE storage
    /\ written' = IF ok THEN ps ELSE written

Saved(ok) == IF ok THEN "ok" ELSE "threw"
GetItem(ok) == IF ok THEN <<"r","e","t","u","r","n","e","d">> ELSE <<"t","h","r","e","w">>

\* Rendering calls p.price.toFixed(2) and (p.price * 90).toFixed(0) for the
\* products of the grid; toFixed of null throws a TypeError, which unmounts
\* the application (there is no error boundary).
RenderThrows(ps) == \E i \in 1..Len(ps) : ps[i].price.k = "null"

\* Orders of other pages: a page that is loaded again drops its pending
\* continuations.
OrdersNotOf(t) == SelectSeq(orders, LAMBDA o : o.tab # t)

\* The page is opened or reloaded in tab t: every useState starts afresh,
\* the catalog is loaded, and after the first render the persist effect
\* writes it back.
Mount(t, readOk, writeOk) ==
    LET ps == load(readOk)
    IN  /\ products' = [products EXCEPT ![t] = ps]
        /\ search' = [search EXCEPT ![t] = <<>>]
        /\ activeCategory' = [activeCategory EXCEPT ![t] = <<"A","l","l">>]
        /\ selected' = [selected EXCEPT ![t] = <<>>]
        /\ mobileMenuOpen' = [mobileMenuOpen EXCEPT ![t] = FALSE]
        /\ isAdmin' = [isAdmin EXCEPT ![t] = FALSE]
        /\ adminPass' = [adminPass EXCEPT ![t] = <<>>]
        /\ newProduct' = [newProduct EXCEPT ![t] = emptyForm]
        /\ orders' = OrdersNotOf(t)
        /\ IF RenderThrows(ps)
           THEN /\ page' = [page EXCEPT ![t] = "crashed"]
                /\ UNCHANGED <<storage, written>>
                /\ last' = Call("mount", GetItem(readOk), t, NoDialog, "none",
                                <<>>)
           ELSE /\ page' = [page EXCEPT ![t] = "mounted"]
                /\ persist(ps, writeOk)
                /\ last' = Call("mount", GetItem(readOk), t, NoDialog,
                                Saved(writeOk), <<>>)
        /\ UNCHANGED now

\* ---------------------------------------------------------- derived views
\* The distinct values of a sequence, in first-seen order.
RECURSIVE Distinct(_)
Distinct(s) ==
    IF s = <<>> THEN <<>>
    ELSE LET front == Distinct(SubSeq(s, 1, Len(s) - 1))
             x == s[Len(s)]
         IN  IF \E i \in 1..Len(front) : front[i] = x
             THEN front
             ELSE Append(front, x)

\* categories: "All", then the categories of the catalog.
categories(t) ==
    <<<<"A","l","l">>>> \o Distinct([i \in 1..Len(products[t]) |-> products[t][i].category])

\* The predicate with the search text compared as typed.
MatchesAsTyped(p, category, text) ==
    LET matchesCategory == category = <<"A","l","l">> \/ p.category = category
        q == toLowerCase(p.name \o p.desc \o p.category)
        matchesSearch == includes(q, text)
    IN  matchesCategory /\ matchesSearch

\* The predicate of the products.filter call that computes filtered.
Matches(p, category, text) ==
    LET matchesCategory == category = <<"A","l","l">> \/ p.category = category
        q == toLowerCase(p.name \o p.desc \o p.category)
        matchesSearch == includes(q, toLowerCase(text))
    IN  matchesCategory /\ matchesSearch

\* Array.prototype.filter with that predicate.
RECURSIVE FilterProducts(_, _, _)
FilterProducts(ps, category, text) ==
    IF ps = <<>> THEN <<>>
    ELSE IF Matches(Head(ps), category, text)
    THEN <<Head(ps)>> \o FilterProducts(Tail(ps), category, text)
    ELSE FilterProducts(Tail(ps), category, text)

filtered(t) == FilterProducts(products[t], activeCategory[t], search[t])

\* --------------------------------------------------------------- browsing
Mounted(t) == page[t] = "mounted"

\* The search input's onChange.
SetSearch(t, s) ==
    /\ Mounted(t)
    /\ search' = [search EXCEPT ![t] = s]
    /\ last' = Event("search", t, NoDialog, "none")
    /\ UNCHANGED <<storage, written, now, page, products, activeCategory, selected,
                   mobileMenuOpen, isAdmin, adminPass, newProduct, orders>>

\* A desktop category chip, one per entry of categories.
SelectChip(t, i) ==
    /\ Mounted(t)
    /\ i \in 1..Len(categories(t))
    /\ activeCategory' = [activeCategory EXCEPT ![t] = categories(t)[i]]
    /\ last' = Event("category", t, NoDialog, "none")
    /\ UNCHANGED <<storage, written, now, page, products, search, selected,
                   mobileMenuOpen, isAdmin, adminPass, newProduct, orders>>

\* The hero buttons "Explore all" and "Dark Picks".
HeroButton(t, c) ==
    /\ Mounted(t)
    /\ c \in {<<"A","l","l">>, <<"D","a","r","k">>}
    /\ activeCategory' = [activeCategory EXCEPT ![t] = c]
    /\ last' = Event("category", t, NoDialog, "none")
    /\ UNCHANGED <<storage, written, now, page, products, search, selected,
                   mobileMenuOpen, isAdmin, adminPass, newProduct, orders>>

\* The hamburger button.
ToggleMobileMenu(t) ==
    /\ Mounted(t)
    /\ mobileMenuOpen' = [mobileMenuOpen EXCEPT ![t] = ~@]
    /\ last' = Event("menu", t, NoDialog, "none")
    /\ UNCHANGED <<storage, written, now, page, products, search, activeCategory,
                   selected, isAdmin, adminPass, newProduct, orders>>

\* A category button of the mobile drawer, rendered while the drawer is open.
SelectDrawer(t, i) ==
    /\ Mounted(t)
    /\ mobileMenuOpen[t]
    /\ i \in 1..Len(categories(t))
    /\ activeCategory' = [activeCategory EXCEPT ![t] = categories(t)[i]]
    /\ mobileMenuOpen' = [mobileMenuOpen EXCEPT ![t] = FALSE]
    /\ last' = Event("category", t, NoDialog, "none")
    /\ UNCHANGED <<storage, written, now, page, products, search, selected, isAdmin,
                   adminPass, newProduct, orders>>

\* The Details button of the i-th card of the grid.
Details(t, i) ==
    /\ Mounted(t)
    /\ LET shown == filtered(t)
       IN  /\ i \in 1..Len(shown)
           /\ selected' = [selected EXCEPT ![t] = <<shown[i]>>]
    /\ last' = Event("details", t, NoDialog, "none")
    /\ UNCHANGED <<storage, written, now, page, products, search, activeCategory,
                   mobileMenuOpen, isAdmin, adminPass, newProduct, orders>>

\* The overlay's backdrop and its Close button.
CloseDetails(t) ==
    /\ Mounted(t)
    /\ selected[t] # <<>>
    /\ selected' = [selected EXCEPT ![t] = <<>>]
    /\ last' = Event("close", t, NoDialog, "none")
    /\ UNCHANGED <<storage, written, now, page, products, search, activeCategory,
                   mobileMenuOpen, isAdmin, adminPass, newProduct, orders>>

\* onKey closing the detail overlay only.
onKeyDetailOnly(t, key) ==
    /\ Mounted(t)
    /\ IF key = "Escape"
       THEN /\ selected' = [selected EXCEPT ![t] = <<>>]
            /\ UNCHANGED mobileMenuOpen
       ELSE UNCHANGED <<selected, mobileMenuOpen>>
    /\ last' = Event(key, t, NoDialog, "none")
    /\ UNCHANGED <<storage, written, now, page, products, search, activeCategory,
                   isAdmin, adminPass, newProduct, orders>>

\* The keydown listener.
onKey(t, key) ==
    /\ Mounted(t)
    /\ IF key = "Escape"
       THEN /\ selected' = [selected EXCEPT ![t] = <<>>]
            /\ mobileMenuOpen' = [mobileMenuOpen EXCEPT ![t] = FALSE]
       ELSE UNCHANGED <<selected, mobileMenuOpen>>
    /\ last' = Event(key, t, NoDialog, "none")
    /\ UNCHANGED <<storage, written, now, page, products, search, activeCategory,
                   isAdmin, adminPass, newProduct, orders>>

\* ------------------------------------------------------------------ admin
ADMIN_PASSPHRASE == <<"c","o","c","o","a","c","r","e","s","t","-","a","d","m","i","n">>
PassAlert == "Enter correct admin passphrase to enable admin controls."
NameAlert == "Please add a product name."
RemoveConfirm == "Remove this chocolate?"

\* The passphrase input's onChange.
SetAdminPass(t, s) ==
    /\ Mounted(t)
    /\ adminPass' = [adminPass EXCEPT ![t] = s]
    /\ last' = Event("pass", t, NoDialog, "none")
    /\ UNCHANGED <<storage, written, now, page, products, search, activeCategory,
                   selected, mobileMenuOpen, isAdmin, newProduct, orders>>

\* handleAdminToggle with the passphrase compared without regard to case.
handleAdminToggleAnyCase(t) ==
    /\ Mounted(t)
    /\ IF isAdmin[t]
       THEN /\ isAdmin' = [isAdmin EXCEPT ![t] = FALSE]
            /\ UNCHANGED adminPass
            /\ last' = Event("toggle", t, NoDialog, "none")
       ELSE IF toLowerCase(adminPass[t]) = ADMIN_PASSPHRASE
       THEN /\ isAdmin' = [isAdmin EXCEPT ![t] = TRUE]
            /\ adminPass' = [adminPass EXCEPT ![t] = <<>>]
            /\ last' = Event("toggle", t, NoDialog, "none")
       ELSE /\ UNCHANGED <<isAdmin, adminPass>>
            /\ last' = Event("toggle", t, PassAlert, "none")
    /\ UNCHANGED <<storage, written, now, page, products, search, activeCategory,
                   selected, mobileMenuOpen, newProduct, orders>>

handleAdminToggle(t) ==
    /\ Mounted(t)
    /\ IF isAdmin[t]
       THEN /\ isAdmin' = [isAdmin EXCEPT ![t] = FALSE]
            /\ UNCHANGED adminPass
            /\ last' = Event("toggle", t, NoDialog, "none")
       ELSE IF adminPass[t] = ADMIN_PASSPHRASE
       THEN /\ isAdmin' = [isAdmin EXCEPT ![t] = TRUE]
            /\ adminPass' = [adminPass EXCEPT ![t] = <<>>]
            /\ last' = Event("toggle", t, NoDialog, "none")
       ELSE /\ UNCHANGED <<isAdmin, adminPass>>
            /\ last' = Event("toggle", t, PassAlert, "none")
    /\ UNCHANGED <<storage, written, now, page, products, search, activeCategory,
                   selected, mobileMenuOpen, newProduct, orders>>

\* The admin panel's Exit button.
ExitAdmin(t) ==
    /\ Mounted(t)
    /\ isAdmin[t]
    /\ isAdmin' = [isAdmin EXCEPT ![t] = FALSE]
    /\ last' = Event("exit", t, NoDialog, "none")
    /\ UNCHANGED <<storage, written, now, page, products, search, activeCategory,
                   selected, mobileMenuOpen, adminPass, newProduct, orders>>

\* An input of the add form, rendered in the admin panel.
SetNewProduct(t, f, v) ==
    /\ Mounted(t)
    /\ isAdmin[t]
    /\ newProduct' = [newProduct EXCEPT ![t] = [@ EXCEPT ![f] = v]]
    /\ last' = Event("form", t, NoDialog, "none")
    /\ UNCHANGED <<storage, written, now, page, products, search, activeCategory,
                   selected, mobileMenuOpen, isAdmin, adminPass, orders>>

\* "choc-" + Date.now()
NewId == <<"c","h","o","c","-">> \o NatChars(now)

\* parseFloat(newProduct.price) || 0
PriceOf(text) ==
    LET n == parseFloat(text) IN IF Truthy(n) THEN n ELSE Num(0, 0)

\* The product addProduct builds from the form.
NewProductOf(form) ==
    Product(NewId, trim(form.name), trim(form.desc), PriceOf(form.price),
            IF trim(form.category) # <<>> THEN trim(form.category)
            ELSE <<"G","e","n","e","r","a","l">>,
            IF form.color # <<>> THEN form.color ELSE <<"#","6","b","3","f","1","f">>)

\* The number of products of a catalog that are not default products.
Added(ps) ==
    Cardinality({i \in 1..Len(ps) :
        \A j \in 1..Len(defaultProducts) : defaultProducts[j].id # ps[i].id})

\* addProduct putting the new product in front of what storage holds.
addProductOntoStored(t, writeOk) ==
    /\ Mounted(t)
    /\ isAdmin[t]
    /\ IF trim(newProduct[t].name) = <<>>
       THEN /\ last' = Event("add", t, NameAlert, "none")
            /\ UNCHANGED <<products, newProduct, storage, written>>
       ELSE /\ Added(products[t]) < MaxAdded
            /\ products' = [products EXCEPT
                              ![t] = <<NewProductOf(newProduct[t])>>
                                     \o load(TRUE)]
            /\ newProduct' = [newProduct EXCEPT ![t] = emptyForm]
            /\ persist(products'[t], writeOk)
            /\ last' = Event("add", t, NoDialog, Saved(writeOk))
    /\ UNCHANGED <<now, page, search, activeCategory, selected,
                   mobileMenuOpen, isAdmin, adminPass, orders>>

\* The add form's onSubmit, rendered in the admin panel; the persist effect
\* runs after the render that follows setProducts.
addProduct(t, writeOk) ==
    /\ Mounted(t)
    /\ isAdmin[t]
    /\ IF trim(newProduct[t].name) = <<>>
       THEN /\ last' = Event("add", t, NameAlert, "none")
            /\ UNCHANGED <<products, newProduct, storage, written>>
       ELSE /\ Added(products[t]) < MaxAdded
            /\ products' = [products EXCEPT
                              ![t] = <<NewProductOf(newProduct[t])>> \o @]
            /\ newProduct' = [newProduct EXCEPT ![t] = emptyForm]
            /\ persist(products'[t], writeOk)
            /\ last' = Event("add", t, NoDialog, Saved(writeOk))
    /\ UNCHANGED <<now, page, search, activeCategory, selected,
                   mobileMenuOpen, isAdmin, adminPass, orders>>

\* Only the first product with the id taken out.
RECURSIVE WithoutFirstId(_, _)
WithoutFirstId(ps, id) ==
    IF ps = <<>> THEN <<>>
    ELSE IF Head(ps).id = id THEN Tail(ps)
    ELSE <<Head(ps)>> \o WithoutFirstId(Tail(ps), id)

\* s.filter((p) => p.id !== id)
WithoutId(ps, id) == SelectSeq(ps, LAMBDA p : p.id # id)

\* removeProduct(id): the confirm dialog, then setProducts and, after the
\* render, the persist effect (setProducts is handed a new array each time).
removeProduct(t, id, confirmed, writeOk) ==
    /\ IF ~confirmed
       THEN /\ last' = Call("remove", id, t, RemoveConfirm, "none", <<>>)
            /\ UNCHANGED <<products, storage, written>>
       ELSE /\ products' = [products EXCEPT ![t] = WithoutId(@, id)]
            /\ persist(products'[t], writeOk)
            /\ last' = Call("remove", id, t, RemoveConfirm, Saved(writeOk),
                            <<>>)
    /\ UNCHANGED <<now, page, search, activeCategory, selected,
                   mobileMenuOpen, isAdmin, adminPass, newProduct, orders>>

\* The Remove button of the i-th entry of the admin panel's list.
RemoveFromList(t, i, confirmed, writeOk) ==
    /\ Mounted(t)
    /\ isAdmin[t]
    /\ i \in 1..Len(products[t])
    /\ removeProduct(t, products[t][i].id, confirmed, writeOk)

\* The overlay's remove button rendered for every visitor.
RemoveFromOverlayUngated(t, confirmed, writeOk) ==
    /\ Mounted(t)
    /\ selected[t] # <<>>
    /\ removeProduct(t, selected[t][1].id, confirmed, writeOk)

\* "Remove this chocolate" in the detail overlay, rendered for the admin.
RemoveFromOverlay(t, confirmed, writeOk) ==
    /\ Mounted(t)
    /\ selected[t] # <<>>
    /\ isAdmin[t]
    /\ removeProduct(t, selected[t][1].id, confirmed, writeOk)

\* ----------------------------------------------------------------- orders
INSTAGRAM_PROFILE == <<"h","t","t","p","s",":","/","/","w","w","w",".","i","n","s","t","a","g","r","a","m",".","c","o","m","/","c","o","c","o","a","c","r","e","s","t","/">>
CopiedAlert == "A pre-filled message was copied to your clipboard. Open the profile and paste it in a DM to place your order."
CopyPrompt == "Copy this message and send it in Instagram DM:"

\* The message template of orderOnInstagram.
Message(product) ==
    <<"H","i"," ","C","o","c","o","a","c","r","e","s","t","!"," ","I","'","d"," ","l","i","k","e"," ","t","o"," ","o","r","d","e","r",":"," ">> \o product.name \o <<" ","(","RUPEE">>
    \o toFixed2(product.price)
    \o <<")"," ","EMDASH"," ","p","l","e","a","s","e"," ","l","e","t"," ","m","e"," ","k","n","o","w"," ","a","v","a","i","l","a","b","i","l","i","t","y"," ","a","n","d"," ","d","e","l","i","v","e","r","y"," ","d","e","t","a","i","l","s",".">>

\* One effect of an orderOnInstagram call on the world outside the page.
Effect(e, arg) == [e |-> e, arg |-> arg]

\* window.open(INSTAGRAM_PROFILE, "_blank")
OpenProfile == Effect("open", INSTAGRAM_PROFILE)

\* The catch branch showing the prompt without opening the profile.
FallbackPromptOnly(message) == <<Effect("prompt", message)>>

\* The catch branch: the profile is opened, then the prompt shows the message.
Fallback(message) == <<OpenProfile, Effect("prompt", message)>>

\* The statements after the await: the profile is opened, then the alert.
Continuation(message) == <<OpenProfile, Effect("alert", message)>>

\* orderOnInstagram(product) up to its await.  Without navigator.clipboard
\* the call of writeText throws inside the try and the catch branch runs at
\* once; otherwise the call is suspended until the write settles.
orderOnInstagram(t, product, supported) ==
    /\ Len(orders) < MaxOrders
    /\ LET message == Message(product)
       IN  IF supported
           THEN /\ orders' = Append(orders,
                     [tab |-> t, message |-> message,
                      effects |-> <<Effect("writeText", message)>>])
                /\ last' = Event("order", t, NoDialog, "none")
           ELSE /\ orders' = orders
                /\ last' = Done("order", t, CopyPrompt, "none",
                                Fallback(message))
    /\ UNCHANGED <<storage, written, now, page, products, search, activeCategory,
                   selected, mobileMenuOpen, isAdmin, adminPass, newProduct>>

\* "Order on Instagram" of the i-th card of the grid.
OrderFromGrid(t, i, supported) ==
    /\ Mounted(t)
    /\ Len(orders) < MaxOrders
    /\ LET shown == filtered(t)
       IN  /\ i \in 1..Len(shown)
           /\ orderOnInstagram(t, shown[i], supported)

\* "Order on Instagram" of the detail overlay.
OrderFromOverlay(t, supported) ==
    /\ Mounted(t)
    /\ selected[t] # <<>>
    /\ orderOnInstagram(t, selected[t][1], supported)

\* The promise of navigator.clipboard.writeText settles and the suspended
\* call goes on: after the await when it resolved, in the catch branch when
\* it rejected.
RemoveAt(s, i) == SubSeq(s, 1, i - 1) \o SubSeq(s, i + 1, Len(s))

ClipboardSettles(i, resolved) ==
    /\ i \in 1..Len(orders)
    /\ LET o == orders[i]
           settled == Effect(IF resolved THEN "resolved" ELSE "rejected",
                             o.message)
           rest == IF resolved THEN Continuation(o.message)
                   ELSE Fallback(o.message)
       IN  /\ orders' = RemoveAt(orders, i)
           /\ last' = Done("settle", o.tab,
                           IF resolved THEN CopiedAlert ELSE CopyPrompt,
                           "none", Append(o.effects, settled) \o rest)
    /\ UNCHANGED <<storage, written, now, page, products, search, activeCategory,
                   selected, mobileMenuOpen, isAdmin, adminPass, newProduct>>

\* Time passes: Date.now() grows.
Tick ==
    /\ now < MaxClock
    /\ now' = now + 1
    /\ last' = Event("tick", "none", NoDialog, "none")
    /\ UNCHANGED <<storage, written, page, products, search, activeCategory, selected,
                   mobileMenuOpen, isAdmin, adminPass, newProduct, orders>>

\* --------------------------------------------------------- specifications
\* Each specification lets the user and the browser take the events one
\* group of properties is about, with the texts typed into each input and
\* the list entries clicked (by position) drawn from small sets.

\* The tab used by the specifications of a single page.
OneTab == {"A"}

\* Every kind of user event on one page: typing a search, choosing a category, details, ordering, Escape,
\* the admin toggle, exit, add and remove.
UserEvent(t) ==
    \/ SetSearch(t, <<>>)
    \/ \E i \in {1, 2} : SelectChip(t, i)
    \/ Details(t, 1)
    \/ OrderFromGrid(t, 1, FALSE)
    \/ OrderFromOverlay(t, FALSE)
    \/ onKey(t, "Escape")
    \/ SetAdminPass(t, ADMIN_PASSPHRASE)
    \/ handleAdminToggle(t)
    \/ ExitAdmin(t)
    \/ SetNewProduct(t, "name", <<"P","e","c","a","n"," ","S","w","i","r","l">>)
    \/ addProduct(t, TRUE)
    \/ \E c \in BOOLEAN : RemoveFromList(t, 1, c, TRUE)
    \/ \E c \in BOOLEAN : RemoveFromOverlay(t, c, TRUE)

Next ==
    \/ \E t \in OneTab : Mount(t, TRUE, TRUE)
    \/ \E t \in OneTab : UserEvent(t)

Spec == Init /\ [][Next]_vars

\* The admin toggle, the overlays and the keyboard on one page.
PassInputs ==
    {<<>>, ADMIN_PASSPHRASE, <<"C","o","c","o","a","c","r","e","s","t","-","A","d","m","i","n">>, <<" ","c","o","c","o","a","c","r","e","s","t","-","a","d","m","i","n"," ">>,
     <<"c","o","c","o","a","c","r","e","s","t">>}

AdminEvent(t) ==
    \/ \E s \in PassInputs : SetAdminPass(t, s)
    \/ handleAdminToggle(t)
    \/ ExitAdmin(t)
    \/ ToggleMobileMenu(t)
    \/ \E i \in {1, 2} : SelectDrawer(t, i)
    \/ \E i \in {1, 2} : Details(t, i)
    \/ CloseDetails(t)
    \/ \E k \in {"Escape", "Enter"} : onKey(t, k)

NextAdmin ==
    \/ \E t \in OneTab : Mount(t, TRUE, TRUE)
    \/ \E t \in OneTab : AdminEvent(t)

SpecAdmin == Init /\ [][NextAdmin]_vars

\* The add form on one page: the admin fills it in and submits it.
NameInputs == {<<>>, <<" ","\t">>, <<" ","P","e","c","a","n"," ","S","w","i","r","l"," ">>}
PriceInputs == {<<>>, <<"a","b","c">>, <<"-","5">>, <<"4",".","5","0">>, <<"I","n","f","i","n","i","t","y">>}

AddEvent(t) ==
    \/ SetAdminPass(t, ADMIN_PASSPHRASE)
    \/ handleAdminToggle(t)
    \/ \E v \in NameInputs : SetNewProduct(t, "name", v)
    \/ \E v \in PriceInputs : SetNewProduct(t, "price", v)
    \/ addProduct(t, TRUE)

NextAdd ==
    \/ \E t \in OneTab : Mount(t, TRUE, TRUE)
    \/ \E t \in OneTab : AddEvent(t)

SpecAdd == Init /\ [][NextAdd]_vars

\* Removing on one page: from the admin panel's list and from the detail
\* overlay, of default products and of added ones (two adds within one
\* millisecond get the same id).
RemoveEvent(t) ==
    \/ SetAdminPass(t, ADMIN_PASSPHRASE)
    \/ handleAdminToggle(t)
    \/ SetNewProduct(t, "name", <<"P","e","c","a","n"," ","S","w","i","r","l">>)
    \/ addProduct(t, TRUE)
    \/ Details(t, 1)
    \/ \E c \in BOOLEAN : RemoveFromList(t, 1, c, TRUE)
    \/ \E c \in BOOLEAN : RemoveFromOverlay(t, c, TRUE)

NextRemove ==
    \/ \E t \in OneTab : Mount(t, TRUE, TRUE)
    \/ \E t \in OneTab : RemoveEvent(t)
    \/ Tick

SpecRemove == Init /\ [][NextRemove]_vars

\* Storage on one page: loads and reloads, adds and removes, with
\* localStorage returning or throwing at each access.
StorageEvent(t) ==
    \/ SetAdminPass(t, ADMIN_PASSPHRASE)
    \/ handleAdminToggle(t)
    \/ SetNewProduct(t, "name", <<"P","e","c","a","n"," ","S","w","i","r","l">>)
    \/ \E v \in {<<"4",".","5","0">>, <<"I","n","f","i","n","i","t","y">>} : SetNewProduct(t, "price", v)
    \/ addProduct(t, TRUE)
    \/ \E w \in BOOLEAN : RemoveFromList(t, 1, TRUE, w)

NextStorage ==
    \/ \E t \in OneTab, r, w \in BOOLEAN : Mount(t, r, w)
    \/ \E t \in OneTab : StorageEvent(t)

SpecStorage == Init /\ [][NextStorage]_vars

\* Ordering on one page: from the grid and from the detail overlay, with
\* and without navigator.clipboard, the write resolving or rejecting.
SearchInputs == {<<>>, <<"M","I","L","K">>}

OrderEvent(t) ==
    \/ \E s \in SearchInputs : SetSearch(t, s)
    \/ \E i \in {1, 2} : Details(t, i)
    \/ CloseDetails(t)
    \/ \E i \in {1, 2}, b \in BOOLEAN : OrderFromGrid(t, i, b)
    \/ \E b \in BOOLEAN : OrderFromOverlay(t, b)

NextOrders ==
    \/ \E t \in OneTab : Mount(t, TRUE, TRUE)
    \/ \E t \in OneTab : OrderEvent(t)
    \/ \E i \in 1..MaxOrders, b \in BOOLEAN : ClipboardSettles(i, b)

SpecOrders == Init /\ [][NextOrders]_vars

\* Filtering on one page: search texts in either case, one of them found
\* only across the end of the name ("e7"), the category chips and the
\* hero buttons, over the default catalog and catalogs the admin added to.
FilterInputs == {<<>>, <<"D","A","R","K">>, <<"e","7">>, <<"z","z">>}

FilterEvent(t) ==
    \/ \E s \in FilterInputs : SetSearch(t, s)
    \/ \E i \in {1, 2, 3} : SelectChip(t, i)
    \/ \E c \in {<<"A","l","l">>, <<"D","a","r","k">>} : HeroButton(t, c)
    \/ SetAdminPass(t, ADMIN_PASSPHRASE)
    \/ handleAdminToggle(t)
    \/ SetNewProduct(t, "name", <<"D","a","r","k"," ","N","i","b">>)
    \/ SetNewProduct(t, "category", <<"d","a","r","k"," ">>)
    \/ addProduct(t, TRUE)

NextFilter ==
    \/ \E t \in OneTab : Mount(t, TRUE, TRUE)
    \/ \E t \in OneTab : FilterEvent(t)

SpecFilter == Init /\ [][NextFilter]_vars

\* Two tabs on the one storage key: each is loaded and reloaded, and the
\* admin of each adds products, tab A one name and tab B another.
NameTypedIn(t) == IF t = "A" THEN <<"P","e","c","a","n"," ","S","w","i","r","l">> ELSE <<"D","a","r","k"," ","N","i","b">>

TabEvent(t) ==
    \/ SetAdminPass(t, ADMIN_PASSPHRASE)
    \/ handleAdminToggle(t)
    \/ SetNewProduct(t, "name", NameTypedIn(t))
    \/ addProduct(t, TRUE)

NextTabs ==
    \/ \E t \in Tabs : Mount(t, TRUE, TRUE)
    \/ \E t \in Tabs : TabEvent(t)

SpecTabs == Init /\ [][NextTabs]_vars

\* ------------------------------------------------------------- properties
\* C1: the admin flag is disabled when the page starts; it goes from
\* disabled to enabled only in a step of the admin toggle taken while the
\* passphrase field is exactly 'cocoacrest-admin'; a toggle taken while
\* disabled with any other text leaves the flag disabled and shows the
\* passphrase alert.
AdminEnabledOnlyByPassphrase ==
    /\ [](\A t \in Tabs : last.op = "mount" /\ last.tab = t => ~isAdmin[t])
    /\ [][\A t \in Tabs :
            /\ (~isAdmin[t] /\ isAdmin'[t]) =>
                  /\ last'.op = "toggle" /\ last'.tab = t
                  /\ adminPass[t] = <<"c","o","c","o","a","c","r","e","s","t","-","a","d","m","i","n">>
            /\ (/\ last'.op = "toggle" /\ last'.tab = t
                /\ ~isAdmin[t]
                /\ adminPass[t] # <<"c","o","c","o","a","c","r","e","s","t","-","a","d","m","i","n">>) =>
                  /\ ~isAdmin'[t]
                  /\ last'.dialog = PassAlert]_vars

\* C1 witness: both cases have happened: a toggle with the constant in
\* another case was refused, and the flag is enabled.
AdminToggleRefusedWitness ==
    /\ last.op = "toggle" /\ last.dialog = PassAlert
    /\ adminPass["A"] = <<"C","o","c","o","a","c","r","e","s","t","-","A","d","m","i","n">>
    /\ ~isAdmin["A"]

\* C2: in a step of a user event the catalog of a tab changes only if the
\* admin flag of that tab is enabled where the step starts, and add and
\* remove are taken only there.
CatalogChangesOnlyForAdmin ==
    [][\A t \in Tabs :
         \/ (products'[t] # products[t] /\ last'.op # "mount")
         \/ (last'.tab = t /\ last'.op \in {"add", "remove"})
         => isAdmin[t]]_vars

\* C2 witness: a confirmed remove has emptied the catalog.
CatalogChangedWitness ==
    /\ last.op = "remove" /\ last.saved = "ok"
    /\ products["A"] = <<>>

\* C3 as stated: the product an add creates has a price that is not below
\* zero, and the price 0 when the price field holds no number.
IsBlank(text) == \A i \in 1..Len(text) : text[i] \in {" ", "\t", "\n", "\r", "\f"}
BelowZero(n) == n.k \in {"num", "inf"} /\ n.m < 0

AddedPriceNotNegative ==
    [][\A t \in Tabs :
         last'.op = "add" /\ last'.tab = t /\ last'.saved # "none" =>
            /\ ~BelowZero(products'[t][1].price)
            /\ newProduct[t].price \in {<<>>, <<"a","b","c">>} =>
                  products'[t][1].price = [k |-> "num", m |-> 0, e |-> 0]]_vars

\* C4 as stated: a load returns the catalog that was last written, the
\* same items in the same order, when storage holds a written catalog that
\* is not empty, and the six default products when storage is absent,
\* empty, unparsable, no array, an empty array, or throws.
LoadReturnsWhatWasWritten ==
    [][\A t \in Tabs :
         last'.op = "mount" /\ last'.tab = t =>
            products'[t] =
                IF /\ last'.arg = <<"r","e","t","u","r","n","e","d">>
                   /\ storage.kind = "array"
                   /\ Len(storage.items) > 0
                THEN written
                ELSE defaultProducts]_vars

\* The same for catalogs whose prices are all finite numbers (not part of
\* C4; it shows where the round trip does hold).
LoadReturnsFiniteCatalogs ==
    [][\A t \in Tabs :
         /\ last'.op = "mount" /\ last'.tab = t
         /\ \A i \in 1..Len(written) : written[i].price.k = "num"
         => products'[t] =
                IF /\ last'.arg = <<"r","e","t","u","r","n","e","d">>
                   /\ storage.kind = "array"
                   /\ Len(storage.items) > 0
                THEN written
                ELSE defaultProducts]_vars

\* C5: an add submitted with a name that is empty or all white space shows
\* the name alert and changes nothing: every catalog, the storage and the
\* add form stay as they were, and the persist effect does not run.
BlankNameAddChangesNothing ==
    [][\A t \in Tabs :
         last'.op = "add" /\ last'.tab = t /\ IsBlank(newProduct[t].name) =>
            /\ last'.dialog = NameAlert
            /\ last'.saved = "none"
            /\ products' = products
            /\ storage' = storage
            /\ newProduct' = newProduct]_vars

\* C5 witness: an add with an all-white-space name was refused while the
\* price field held a text.
BlankNameAddWitness ==
    /\ last.op = "add" /\ last.dialog = NameAlert
    /\ newProduct["A"].name = <<" ","\t">>
    /\ newProduct["A"].price = <<"4",".","5","0">>

\* The products of ps whose id is not id, in the order of ps: the j-th of
\* them is the product at the j-th smallest position that holds another id.
OthersInOrder(ps, id) ==
    LET kept == {i \in 1..Len(ps) : ps[i].id # id}
        nth(j) == CHOOSE i \in kept : Cardinality({k \in kept : k <= i}) = j
    IN  [j \in 1..Cardinality(kept) |-> ps[nth(j)]]

ProfileUrl == <<"h","t","t","p","s",":","/","/","w","w","w",".","i","n","s","t","a","g","r","a","m",".","c","o","m","/","c","o","c","o","a","c","r","e","s","t","/">>
Opens(effects) ==
    Cardinality({i \in 1..Len(effects) : effects[i].e = "open"})

OrderOpensProfileOnce ==
    /\ \A i \in 1..Len(orders) : Opens(orders[i].effects) = 0
    /\ last.op \in {"order", "settle"} /\ last.effects # <<>> =>
          LET fx == last.effects
              n == Len(fx)
              msg == fx[n].arg
          IN  /\ Opens(fx) = 1
              /\ fx[n - 1] = [e |-> "open", arg |-> ProfileUrl]
              /\ \/ /\ n = 4
                    /\ fx[1] = [e |-> "writeText", arg |-> msg]
                    /\ fx[2] = [e |-> "resolved", arg |-> msg]
                    /\ fx[4].e = "alert"
                    /\ last.dialog = CopiedAlert
                 \/ /\ n = 4
                    /\ fx[1] = [e |-> "writeText", arg |-> msg]
                    /\ fx[2] = [e |-> "rejected", arg |-> msg]
                    /\ fx[4].e = "prompt"
                    /\ last.dialog = CopyPrompt
                 \/ /\ n = 2
                    /\ last.op = "order"
                    /\ fx[2].e = "prompt"
                    /\ last.dialog = CopyPrompt
    /\ last.op = "settle" => last.effects # <<>>
    /\ last.op = "order" /\ last.effects = <<>> =>
          /\ orders # <<>>
          /\ orders[Len(orders)].effects =
                <<[e |-> "writeText", arg |-> orders[Len(orders)].message]>>

\* C6 witness: a call ended through the rejected write, for the second
\* product of the search result.
OrderRejectedWitness ==
    /\ last.op = "settle" /\ last.dialog = CopyPrompt
    /\ Len(last.effects) = 4
    /\ search["A"] = <<"M","I","L","K">>

\* C7: the filter result is the sub-sequence of the catalog, in catalog
\* order, of the products whose category is the active category (or the
\* active category is 'All') and whose lowercased name+desc+category holds
\* the lowercased search text at some position.  For the default catalog,
\* category 'Dark' and no search text it is the one product named
\* 'Midnight Truffle'.
OccursIn(text, q) ==
    \E k \in 0..(Len(text) - Len(q)) :
        \A j \in 1..Len(q) : text[k + j] = q[j]

Wanted(p, category, text) ==
    /\ category = <<"A","l","l">> \/ p.category = category
    /\ OccursIn(toLowerCase(p.name \o p.desc \o p.category),
                toLowerCase(text))

FilterIsTheMatchingSubsequence ==
    \A t \in Tabs :
        LET ps == products[t]
            kept == {i \in 1..Len(ps) :
                        Wanted(ps[i], activeCategory[t], search[t])}
            nth(j) == CHOOSE i \in kept :
                        Cardinality({k \in kept : k <= i}) = j
        IN  /\ filtered(t) = [j \in 1..Cardinality(kept) |-> ps[nth(j)]]
            /\ (/\ ps = defaultProducts
                /\ activeCategory[t] = <<"D","a","r","k">>
                /\ search[t] = <<>>) =>
                  /\ Len(filtered(t)) = 1
                  /\ filtered(t)[1].name = <<"M","i","d","n","i","g","h","t"," ","T","r","u","f","f","l","e">>
            /\ search[t] = <<>> /\ activeCategory[t] = <<"A","l","l">> =>
                  filtered(t) = ps

\* C7 witness: two products were added, and the search text 'e7' under
\* the category 'Dark' keeps one product of the eight.
FilterWitness ==
    /\ search["A"] = <<"e","7">>
    /\ activeCategory["A"] = <<"D","a","r","k">>
    /\ Len(products["A"]) = 8
    /\ Len(filtered("A")) = 1

\* C8 as stated: after the Escape key handler ran, the detail overlay, the
\* mobile category drawer and the admin overlay are all closed.
EscapeClosesEverything ==
    \A t \in Tabs :
        last.op = "Escape" /\ last.tab = t =>
            selected[t] = <<>> /\ ~mobileMenuOpen[t] /\ ~isAdmin[t]

\* C8 amended: after the Escape key handler ran, the detail overlay and the
\* mobile category drawer are closed; the handler leaves the admin flag,
\* and with it the admin overlay, as it was.
EscapeClosesDetailAndDrawer ==
    /\ [](\A t \in Tabs :
            last.op = "Escape" /\ last.tab = t =>
                selected[t] = <<>> /\ ~mobileMenuOpen[t])
    /\ [][last'.op = "Escape" => isAdmin' = isAdmin]_vars

\* C8 witness: Escape was pressed and the admin overlay is still open.
EscapeWithAdminOpenWitness ==
    last.op = "Escape" /\ isAdmin["A"] /\ selected["A"] = <<>>

\* C10: with two tabs on the one storage key, a step that changes a tab's
\* catalog is a step of that tab, so no tab takes over what another wrote
\* after it was loaded; a mount and every add write the tab's whole
\* in-memory catalog, the added product in front of what the tab held
\* before, whatever storage held; so the last write wins.
LastWriteWins ==
    [][\A t \in Tabs :
         /\ products'[t] # products[t] => last'.tab = t
         /\ last'.tab = t /\ last'.saved = "ok" =>
               /\ storage'.kind = "array"
               /\ storage'.items = products'[t]
         /\ last'.tab = t /\ last'.op = "add" /\ last'.saved = "ok" =>
               /\ Len(storage'.items) = Len(products[t]) + 1
               /\ \A i \in 1..Len(products[t]) :
                     storage'.items[i + 1] = products[t][i]]_vars

\* C10 witness: both tabs loaded the default catalog, tab A added a
\* product and then tab B added one: storage is tab B's catalog and does
\* not hold tab A's product.
LostUpdateWitness ==
    /\ last.op = "add" /\ last.tab = "B" /\ last.saved = "ok"
    /\ Len(products["A"]) = 7 /\ products["A"][1].name = <<"P","e","c","a","n"," ","S","w","i","r","l">>
    /\ Len(products["B"]) = 7 /\ products["B"][1].name = <<"D","a","r","k"," ","N","i","b">>
    /\ storage.items = products["B"]
    /\ \A i \in 1..Len(storage.items) :
          storage.items[i].name # <<"P","e","c","a","n"," ","S","w","i","r","l">>

\* C11: in every reachable state the product held by the detail overlay of
\* a page, when there is one, is a product of that page's current catalog.
InCatalog(t, p) == \E i \in 1..Len(products[t]) : products[t][i] = p
SelectedIsInCatalog ==
    \A t \in Tabs : selected[t] # <<>> => InCatalog(t, selected[t][1])

=============================================================================
